---- MODULE Spec2Model ----
(***************************************************************************)
(* Model of the DHT11/DHT22 single-wire driver NuerteyDHT11Device<T>       *)
(* (src/NuerteyDHT11Device.h): the rate limiter / reading cache of         *)
(* ReadData, the read transaction (start signal, three handshake waits,    *)
(* 40 bit captures, packing), ExpectPulse and ValidateChecksum.            *)
(*                                                                         *)
(* Real time is counted in ticks, TicksPerSecond ticks to the second;      *)
(* time(NULL) is the tick count truncated to whole seconds.  time_t is     *)
(* taken as a signed integer wide enough for the modelled range.           *)
(***************************************************************************)
EXTENDS Integers, Sequences, FiniteSets, TLC

\* ------------------------------------------------------------ constants

PIN_HIGH == 1
PIN_LOW == 0

DHT11_MICROCONTROLLER_RESOLUTION_BITS == 8
SINGLE_BUS_DATA_FRAME_SIZE_BYTES == 5
MAXIMUM_DATA_FRAME_SIZE_BITS == 40
MINIMUM_SAMPLING_PERIOD_SECONDS == 2

\* The max_time arguments of the five ExpectPulse calls of ReadData.
PresenceTimeout == 40
SyncLowTimeout == 100
SyncHighTimeout == 100
BitLowTimeout == 75
BitHighTimeout == 50

\* The argument of the wait_us before a bit is sampled.
SampleDelay == 40

\* ---------------------------------------------------------------- bounds

\* Ticks of real time per second of time(NULL).
TicksPerSecond == 2
\* Real time runs from 0 to MaxNow ticks.
MaxNow == 7
\* An indeterminate float is one of 0..MaxIndeterminate.
MaxIndeterminate == 1
\* ExpectPulse alone is explored for max_time in 0..MaxPulseTime.
MaxPulseTime == 3

\* ------------------------------------------------------------ data types

SensorStatus_t ==
    { "SUCCESS", "ERROR_BUS_BUSY", "ERROR_NOT_DETECTED", "ERROR_BAD_START",
      "ERROR_SYNC_TIMEOUT", "ERROR_DATA_TIMEOUT", "ERROR_BAD_CHECKSUM",
      "ERROR_TOO_FAST_READS" }

\* The statuses of the edge waits that time out.
TimeoutStatuses ==
    { "ERROR_NOT_DETECTED", "ERROR_SYNC_TIMEOUT", "ERROR_TOO_FAST_READS",
      "ERROR_DATA_TIMEOUT" }

PinLevels == {PIN_LOW, PIN_HIGH}

ZeroFrame == [k \in 1..SINGLE_BUS_DATA_FRAME_SIZE_BYTES |-> 0]

ZeroBits == [k \in 1..MAXIMUM_DATA_FRAME_SIZE_BITS |-> 0]

\* What an uninitialised or never-returned float may hold.
IndeterminateFloats == 0..MaxIndeterminate

\* What the uninitialised m_TheLastReadResult may hold after construction:
\* a status ReadData can return and one it never assigns.
IndeterminateStatuses == {"SUCCESS", "ERROR_BUS_BUSY"}

\* Frames the sensor may transmit: a valid one, the same with a wrong
\* checksum, and one whose byte sum overflows 8 bits.
SensorFrames ==
    { <<50, 0, 24, 0, 74>>, <<50, 0, 24, 0, 75>>, <<255, 255, 255, 255, 252>> }

\* Bit k (0-based, in transmission order) of a frame sent MSB first.
FrameBit(frame, k) ==
    (frame[(k \div 8) + 1] \div (2 ^ (7 - (k % 8)))) % 2

\* ------------------------------------------------------------- the clock

\* time(NULL): whole seconds.
Time(ticks) == ticks \div TicksPerSecond

\* difftime(end, beginning)
difftime(end, beginning) == end - beginning

\* -------------------------------------------------------- bit arithmetic

RECURSIVE BitAnd(_, _)
\* x & y on non-negative integers.
BitAnd(x, y) ==
    IF x = 0 \/ y = 0 THEN 0
    ELSE ((x % 2) * (y % 2)) + 2 * BitAnd(x \div 2, y \div 2)

RECURSIVE BitOr(_, _)
\* x | y on non-negative integers.
BitOr(x, y) ==
    IF x = 0 THEN y
    ELSE IF y = 0 THEN x
    ELSE (IF (x % 2) + (y % 2) > 0 THEN 1 ELSE 0) + 2 * BitOr(x \div 2, y \div 2)

\* 1 << n
ShiftLeftOne(n) == 2 ^ n

\* ------------------------------------------------------------ ExpectPulse

\* The pin as ExpectPulse sees it: pinTrace[k] is the level read by the
\* k-th evaluation of the loop condition (level == theIO).

RECURSIVE ExpectPulseLoop_LateTimeout(_, _, _, _, _)
\* ExpectPulseLoop with the timeout test off by one: count > max_time + 1.
ExpectPulseLoop_LateTimeout(pinTrace, level, max_time, count, k) ==
    IF level = pinTrace[k]
    THEN IF count > max_time + 1
         THEN [result |-> "ERROR_TOO_FAST_READS", observations |-> k, waits |-> count]
         ELSE ExpectPulseLoop_LateTimeout(pinTrace, level, max_time, count + 1, k + 1)
    ELSE [result |-> "SUCCESS", observations |-> k, waits |-> count]

RECURSIVE ExpectPulseLoop_UntilLevel(_, _, _, _, _)
\* ExpectPulseLoop spinning until the pin reads `level`: while (level != theIO).
ExpectPulseLoop_UntilLevel(pinTrace, level, max_time, count, k) ==
    IF level # pinTrace[k]
    THEN IF count > max_time
         THEN [result |-> "ERROR_TOO_FAST_READS", observations |-> k, waits |-> count]
         ELSE ExpectPulseLoop_UntilLevel(pinTrace, level, max_time, count + 1, k + 1)
    ELSE [result |-> "SUCCESS", observations |-> k, waits |-> count]

RECURSIVE ExpectPulseLoop(_, _, _, _, _)
\* The while loop, about to evaluate its condition for the k-th time with
\* the given count.  observations: pin reads made; waits: wait_us(1) calls.
ExpectPulseLoop(pinTrace, level, max_time, count, k) ==
    IF level = pinTrace[k]
    THEN IF count > max_time
         THEN [result |-> "ERROR_TOO_FAST_READS", observations |-> k, waits |-> count]
         ELSE ExpectPulseLoop(pinTrace, level, max_time, count + 1, k + 1)
    ELSE [result |-> "SUCCESS", observations |-> k, waits |-> count]

ExpectPulse(pinTrace, level, max_time) ==
    ExpectPulseLoop(pinTrace, level, max_time, 0, 1)

\* The most pin reads one ExpectPulse(_, _, max_time) call can make.
TraceLength(max_time) == max_time + 2

\* The k-th read of a line that reads `level` d times and the other level
\* from then on.
PulseTraceAt(level, d, k) == IF k <= d THEN level ELSE 1 - level

\* A line that reads `level` d times and the other level from then on.
PulseTrace(level, d, max_time) ==
    [k \in 1..TraceLength(max_time) |-> PulseTraceAt(level, d, k)]

\* Line behaviours tried in a transaction: the edge is there at once, it
\* arrives at the last read that still succeeds, it does not arrive.
PulseDelays(max_time) == {0, max_time + 1, max_time + 2}

\* The max_time arguments ReadData passes.
Timeouts ==
    {PresenceTimeout, SyncLowTimeout, SyncHighTimeout, BitLowTimeout, BitHighTimeout}

\* ExpectPulse on each line behaviour of PulseDelays, for each call of
\* ReadData, tabulated.
PulseOutcomes ==
    [max_time \in Timeouts |->
        [level \in PinLevels |->
            [d \in PulseDelays(max_time) |->
                ExpectPulse(PulseTrace(level, d, max_time), level, max_time)]]]

\* -------------------------------------------------------- ValidateChecksum

\* ChecksumMatches without the & 0xFF.
ChecksumMatches_NoTruncation(frame) ==
    frame[5] = frame[1] + frame[2] + frame[3] + frame[4]

\* The condition of the if statement.
ChecksumMatches(frame) ==
    frame[5] = BitAnd(frame[1] + frame[2] + frame[3] + frame[4], 255)

\* The status ValidateChecksum returns.
ValidateChecksum(frame) ==
    IF ChecksumMatches(frame) THEN "SUCCESS" ELSE "ERROR_BAD_CHECKSUM"

\* CalculateTemperature and CalculateHumidity have empty bodies: control
\* flows off the end of a function returning float, so the value returned
\* is indeterminate.
CalculateTemperature(frame) == IndeterminateFloats

CalculateHumidity(frame) == IndeterminateFloats

\* ---------------------------------------------------------- store the data

RECURSIVE StoreByte_LsbFirst(_, _, _, _)
\* StoreByte setting bit j of the byte for the j-th bit captured.
StoreByte_LsbFirst(bits, i, j, b) ==
    IF j < DHT11_MICROCONTROLLER_RESOLUTION_BITS
    THEN StoreByte_LsbFirst(bits, i, j + 1,
                   IF bits[i * DHT11_MICROCONTROLLER_RESOLUTION_BITS + j + 1] = 1
                   THEN BitOr(b, ShiftLeftOne(j))
                   ELSE b)
    ELSE b

RECURSIVE StoreByte(_, _, _, _)
\* The inner loop of "store the data" for byte i, at bit j with b so far.
StoreByte(bits, i, j, b) ==
    IF j < DHT11_MICROCONTROLLER_RESOLUTION_BITS
    THEN StoreByte(bits, i, j + 1,
                   IF bits[i * DHT11_MICROCONTROLLER_RESOLUTION_BITS + j + 1] = 1
                   THEN BitOr(b, ShiftLeftOne(7 - j))
                   ELSE b)
    ELSE b

\* The outer loop: m_TheDataFrame[i] = b for every i.
StoreData(bits) ==
    [k \in 1..SINGLE_BUS_DATA_FRAME_SIZE_BYTES |-> StoreByte(bits, k - 1, 0, 0)]

\* ------------------------------------------------------------------ state

VARIABLES
    now,                  \* real time, in ticks
    m_TheDataFrame,       \* members of the instance
    m_TheLastReadTime,
    m_TheLastReadResult,
    m_TheLastTemperature,
    m_TheLastHumidity,
    pinMode,              \* the data pin: unconfigured, pullup, output_low, output_high, input
    pc,                   \* where the caller is: idle, or a place inside ReadData
    currentTime,          \* locals of ReadData
    i,
    j,
    bitValue,
    sensorFrame,          \* the frame the sensor transmits in this transaction
    pulse,                \* what the most recent ExpectPulse call returned
    ret,                  \* what the most recent ReadData call returned
    retAt,                \* the place that call returned from ("none": no call yet)
    lastCallAt,           \* real time at which the most recent call was made
    lastTxAt,             \* real time at which the most recent transaction began (-1: none yet)
    entrySnapshot,        \* m_TheLastTemperature, m_TheLastHumidity when that call was made
    bus,                  \* the most recent pin read, ExpectPulse arguments and sample delay
    tally,                \* what the call in progress has done so far
    T,                    \* the sensor type the class template is instantiated with
    thr,                  \* where each of two threads calling ReadData concurrently is
    probe                 \* input and output of a function explored on its own

members ==
    << m_TheDataFrame, m_TheLastReadTime, m_TheLastReadResult,
       m_TheLastTemperature, m_TheLastHumidity >>

locals == << currentTime, i, j, bitValue, sensorFrame, pulse >>

history == << ret, retAt, lastCallAt, lastTxAt, entrySnapshot >>

observed == << bus, tally >>

vars == << now, members, pinMode, pc, locals, history, observed, probe, T, thr >>

\* Nothing done yet.
ZeroTally ==
    [starts |-> 0, handshakes |-> 0, bitWaits |-> 0, samples |-> 0, okWaits |-> 0]

\* The line idles high; no start request, ExpectPulse call or sample delay yet.
IdleBus ==
    [level |-> PIN_HIGH, hold |-> 0, pulseLevel |-> 0, pulseMax |-> 0, delay |-> 0]

\* The threads of the concurrent callers.
Threads == {1, 2}

\* A thread that is not in ReadData.
IdleThread == [pc |-> "idle", currentTime |-> 0, called |-> FALSE]

\* struct DHT11_t {}; struct DHT22_t {};
SensorTypes == {"DHT11_t", "DHT22_t"}

\* The milliseconds the start request is held low:
\* if constexpr (is_same<T, DHT11_t>) sleep_for(20) else ... sleep_for(2)
StartHold == IF T = "DHT11_t" THEN 20 ELSE 2

NoProbe == [kind |-> "none"]

\* ------------------------------------------------------------ constructor

\* Baseline without the offset: m_TheLastReadTime = time(NULL).
Baseline_NoOffset(t) == t

\* m_TheLastReadTime = time(NULL) - MINIMUM_SAMPLING_PERIOD_SECONDS
Baseline(t) == t - MINIMUM_SAMPLING_PERIOD_SECONDS

\* The state after NuerteyDHT11Device(thePinName): only m_TheDataPinName and
\* m_TheLastReadTime are set; the other members hold what the storage held.
Constructed(frame, status, temperature, humidity) ==
    /\ now = 0
    /\ m_TheLastReadTime = Baseline(Time(now))
    /\ m_TheDataFrame = frame
    /\ m_TheLastReadResult = status
    /\ m_TheLastTemperature = temperature
    /\ m_TheLastHumidity = humidity
    /\ pinMode = "unconfigured"
    /\ pc = "idle"
    /\ currentTime = 0
    /\ i = 0
    /\ j = 0
    /\ bitValue = ZeroBits
    /\ sensorFrame = ZeroFrame
    /\ pulse = "SUCCESS"
    /\ ret = "SUCCESS"
    /\ retAt = "none"
    /\ lastCallAt = 0
    /\ lastTxAt = -1
    /\ entrySnapshot = << temperature, humidity >>
    /\ bus = IdleBus
    /\ tally = ZeroTally
    /\ thr = [t \in Threads |-> IdleThread]

Init ==
    /\ \E frame \in {ZeroFrame} \cup SensorFrames, status \in IndeterminateStatuses,
          temperature \in IndeterminateFloats, humidity \in IndeterminateFloats :
         Constructed(frame, status, temperature, humidity)
    /\ T \in SensorTypes
    /\ probe = NoProbe

\* ------------------------------------------------------------- the caller

\* Real time passes between calls (ReadData reads the clock once, on entry).
Tick ==
    /\ pc = "idle"
    /\ now < MaxNow
    /\ now' = now + 1
    /\ UNCHANGED << members, pinMode, pc, locals, history, observed, probe, T, thr >>

\* --------------------------------------------------------------- ReadData

\* The condition of the early return.
TooSoon(current, last) ==
    difftime(current, last) < MINIMUM_SAMPLING_PERIOD_SECONDS

\* return <status> from the place `at`: the locals die.
Return(status, at) ==
    /\ ret' = status
    /\ retAt' = at
    /\ pc' = "idle"
    /\ i' = 0
    /\ j' = 0
    /\ bitValue' = ZeroBits
    /\ sensorFrame' = ZeroFrame
    /\ tally' = ZeroTally

\* ReturnCached re-arming the limiter on the way out.
ReturnCached_Rearms ==
    /\ Return(m_TheLastReadResult, "cache")
    /\ m_TheLastReadTime' = currentTime'
    /\ UNCHANGED << m_TheDataFrame, m_TheLastReadResult, m_TheLastTemperature,
                    m_TheLastHumidity, pinMode, pulse, lastTxAt, bus >>

\* The early return of the rate limiter.
ReturnCached ==
    /\ Return(m_TheLastReadResult, "cache")
    /\ UNCHANGED << members, pinMode, pulse, lastTxAt, bus >>

\* BeginTransaction without m_TheLastReadTime = currentTime.
BeginTransaction_NotArmed ==
    /\ m_TheDataFrame' = ZeroFrame
    /\ pc' = "request_pullup"
    /\ lastTxAt' = now
    /\ UNCHANGED << m_TheLastReadTime, m_TheLastReadResult, m_TheLastTemperature,
                    m_TheLastHumidity, pinMode, i, j, bitValue, sensorFrame, pulse,
                    ret, retAt, observed >>

\* m_TheLastReadTime = currentTime; m_TheDataFrame.fill(0);
BeginTransaction ==
    /\ m_TheLastReadTime' = currentTime'
    /\ m_TheDataFrame' = ZeroFrame
    /\ pc' = "request_pullup"
    /\ lastTxAt' = now
    /\ UNCHANGED << m_TheLastReadResult, m_TheLastTemperature, m_TheLastHumidity,
                    pinMode, i, j, bitValue, sensorFrame, pulse, ret, retAt, observed >>

\* Entry of ReadData up to the zero fill.
\* ReadDataEnter serving a cached timeout for ever.
ReadDataEnter_StickyFailure ==
    /\ pc = "idle"
    /\ currentTime' = Time(now)
    /\ lastCallAt' = now
    /\ entrySnapshot' = << m_TheLastTemperature, m_TheLastHumidity >>
    /\ IF TooSoon(currentTime', m_TheLastReadTime)
            \/ (lastTxAt >= 0 /\ m_TheLastReadResult \in TimeoutStatuses)
       THEN ReturnCached
       ELSE BeginTransaction
    /\ UNCHANGED << now, probe, T, thr >>

ReadDataEnter ==
    /\ pc = "idle"
    /\ currentTime' = Time(now)
    /\ lastCallAt' = now
    /\ entrySnapshot' = << m_TheLastTemperature, m_TheLastHumidity >>
    /\ IF TooSoon(currentTime', m_TheLastReadTime)
       THEN ReturnCached
       ELSE BeginTransaction
    /\ UNCHANGED << now, probe, T, thr >>

\* DigitalInOut pin(m_TheDataPinName); pin.mode(PullUp); sleep_for(1);
RequestPullUp ==
    /\ pc = "request_pullup"
    /\ pinMode' = "pullup"
    /\ pc' = "request_low"
    /\ UNCHANGED << now, members, locals, history, observed, probe, T, thr >>

\* output(); pin = PIN_LOW; sleep_for(20 or 2): the start request
RequestLow ==
    /\ pc = "request_low"
    /\ pinMode' = "output_low"
    /\ bus' = [bus EXCEPT !.hold = StartHold]
    /\ tally' = [tally EXCEPT !.starts = @ + 1]
    /\ pc' = "request_high"
    /\ UNCHANGED << now, members, locals, history, probe, T, thr >>

\* i = j = b = 0; bitValue = {}; mode(PullUp); pin = PIN_HIGH; wait_us(30);
RequestHigh ==
    /\ pc = "request_high"
    /\ i' = 0
    /\ j' = 0
    /\ bitValue' = ZeroBits
    /\ pinMode' = "output_high"
    /\ pc' = "request_release"
    /\ UNCHANGED << now, members, currentTime, sensorFrame, pulse, history, observed,
                    probe, T, thr >>

\* RequestRelease leaving the pin driven.
RequestRelease_StaysOutput ==
    /\ pc = "request_release"
    /\ pc' = "presence"
    /\ UNCHANGED << now, members, pinMode, locals, history, observed, probe, T, thr >>

\* input()
RequestRelease ==
    /\ pc = "request_release"
    /\ pinMode' = "input"
    /\ pc' = "presence"
    /\ UNCHANGED << now, members, locals, history, observed, probe, T, thr >>

\* The waits of the handshake and of the bit capture.
HandshakePlaces == {"presence", "sync_low", "sync_high"}

BitWaitPlaces == {"bit_low", "bit_high"}

\* tally after one more successful wait, made at the place `at`.
Tallied(at) ==
    [tally EXCEPT !.handshakes = @ + (IF at \in HandshakePlaces THEN 1 ELSE 0),
                  !.bitWaits = @ + (IF at \in BitWaitPlaces THEN 1 ELSE 0),
                  !.okWaits = @ + 1]

\* bus after the ExpectPulse(pin, level, max_time) call that gave r on the
\* line PulseTrace(level, d, max_time).
Polled(level, max_time, d, r) ==
    [bus EXCEPT !.level = PulseTraceAt(level, d, r.observations),
                !.pulseLevel = level,
                !.pulseMax = max_time]

\* Wait with a failure path that returns without m_TheLastReadResult = result.
Wait_ResultNotCached(at, level, max_time, failure, next) ==
    /\ pc = at
    /\ \E d \in PulseDelays(max_time) :
         LET r == PulseOutcomes[max_time][level][d]
         IN  /\ pulse' = r.result
             /\ bus' = Polled(level, max_time, d, r)
             /\ IF r.result # "SUCCESS"
                THEN /\ UNCHANGED m_TheLastReadResult
                     /\ Return(failure, at)
                ELSE /\ next
                     /\ tally' = Tallied(at)
                     /\ UNCHANGED << m_TheLastReadResult, ret, retAt >>
    /\ UNCHANGED << now, m_TheDataFrame, m_TheLastReadTime, m_TheLastTemperature,
                    m_TheLastHumidity, pinMode, currentTime, lastCallAt, lastTxAt,
                    entrySnapshot, probe, T, thr >>

\* if (SUCCESS != ExpectPulse(pin, level, max_time))
\*     { result = failure; m_TheLastReadResult = result; return result; }
\* with the line behaving in one of the ways of PulseDelays.
Wait(at, level, max_time, failure, next) ==
    /\ pc = at
    /\ \E d \in PulseDelays(max_time) :
         LET r == PulseOutcomes[max_time][level][d]
         IN  /\ pulse' = r.result
             /\ bus' = Polled(level, max_time, d, r)
             /\ IF r.result # "SUCCESS"
                THEN /\ m_TheLastReadResult' = failure
                     /\ Return(failure, at)
                ELSE /\ next
                     /\ tally' = Tallied(at)
                     /\ UNCHANGED << m_TheLastReadResult, ret, retAt >>
    /\ UNCHANGED << now, m_TheDataFrame, m_TheLastReadTime, m_TheLastTemperature,
                    m_TheLastHumidity, pinMode, currentTime, lastCallAt, lastTxAt,
                    entrySnapshot, probe, T, thr >>

\* Wait till the sensor grabs the bus.
\* WaitPresence reporting a busy bus when the sensor does not answer.
WaitPresence_BusBusy ==
    Wait("presence", 1, PresenceTimeout, "ERROR_BUS_BUSY",
         pc' = "sync_low" /\ UNCHANGED << i, j, bitValue, sensorFrame >>)

WaitPresence ==
    Wait("presence", 1, PresenceTimeout, "ERROR_NOT_DETECTED",
         pc' = "sync_low" /\ UNCHANGED << i, j, bitValue, sensorFrame >>)

\* Sensor should signal low 80us ...
WaitSyncLow ==
    Wait("sync_low", 0, SyncLowTimeout, "ERROR_SYNC_TIMEOUT",
         pc' = "sync_high" /\ UNCHANGED << i, j, bitValue, sensorFrame >>)

\* WaitSyncHigh reporting the status of the wait before it.
WaitSyncHigh_SyncTimeout ==
    Wait("sync_high", 1, SyncHighTimeout, "ERROR_SYNC_TIMEOUT",
         /\ pc' = "bit_low"
         /\ sensorFrame' \in SensorFrames
         /\ UNCHANGED << i, j, bitValue >>)

\* ... and then hi 80us; the sensor then starts to transmit a frame.
WaitSyncHigh ==
    Wait("sync_high", 1, SyncHighTimeout, "ERROR_TOO_FAST_READS",
         /\ pc' = "bit_low"
         /\ sensorFrame' \in SensorFrames
         /\ UNCHANGED << i, j, bitValue >>)

\* BitWaitLow spinning while the line is high.
BitWaitLow_WhileHigh ==
    Wait("bit_low", 1, BitLowTimeout, "ERROR_DATA_TIMEOUT",
         pc' = "bit_sample" /\ UNCHANGED << i, j, bitValue, sensorFrame >>)

\* capture the data: the first wait of bit (i, j)
BitWaitLow ==
    Wait("bit_low", 0, BitLowTimeout, "ERROR_DATA_TIMEOUT",
         pc' = "bit_sample" /\ UNCHANGED << i, j, bitValue, sensorFrame >>)

\* BitSample packing the bits captured so far into the data frame.
BitSample_PacksAsItGoes ==
    /\ pc = "bit_sample"
    /\ LET k == i * DHT11_MICROCONTROLLER_RESOLUTION_BITS + j
       IN  /\ bus' = [bus EXCEPT !.delay = SampleDelay,
                                 !.level = FrameBit(sensorFrame, k)]
           /\ bitValue' = [bitValue EXCEPT ![k + 1] = bus'.level]
    /\ m_TheDataFrame' = StoreData(bitValue')
    /\ tally' = [tally EXCEPT !.samples = @ + 1]
    /\ pc' = "bit_high"
    /\ UNCHANGED << now, m_TheLastReadTime, m_TheLastReadResult, m_TheLastTemperature,
                    m_TheLastHumidity, pinMode, currentTime, i, j, sensorFrame, pulse,
                    history, probe, T, thr >>

\* wait_us(40); bitValue[i*8 + j] = pin; the sensor holds the line at the
\* level of the bit it is sending.
BitSample ==
    /\ pc = "bit_sample"
    /\ LET k == i * DHT11_MICROCONTROLLER_RESOLUTION_BITS + j
       IN  /\ bus' = [bus EXCEPT !.delay = SampleDelay,
                                 !.level = FrameBit(sensorFrame, k)]
           /\ bitValue' = [bitValue EXCEPT ![k + 1] = bus'.level]
    /\ tally' = [tally EXCEPT !.samples = @ + 1]
    /\ pc' = "bit_high"
    /\ UNCHANGED << now, members, pinMode, currentTime, i, j, sensorFrame, pulse,
                    history, probe, T, thr >>

\* j++, and i++ when the inner loop ends; the loops end after bit (4, 7).
\* NextBit leaving the capture loop one bit early.
NextBit_OneBitShort ==
    /\ IF j + 1 < DHT11_MICROCONTROLLER_RESOLUTION_BITS
       THEN i' = i /\ j' = j + 1
       ELSE i' = i + 1 /\ j' = 0
    /\ pc' = IF i' * DHT11_MICROCONTROLLER_RESOLUTION_BITS + j'
                  < MAXIMUM_DATA_FRAME_SIZE_BITS - 1
             THEN "bit_low" ELSE "store"
    /\ UNCHANGED << bitValue, sensorFrame >>

\* NextBit going round the inner loop without j++.
NextBit_SameBit ==
    /\ i' = i
    /\ j' = j
    /\ pc' = "bit_low"
    /\ UNCHANGED << bitValue, sensorFrame >>

NextBit ==
    /\ IF j + 1 < DHT11_MICROCONTROLLER_RESOLUTION_BITS
       THEN i' = i /\ j' = j + 1
       ELSE i' = i + 1 /\ j' = 0
    /\ pc' = IF i' < SINGLE_BUS_DATA_FRAME_SIZE_BYTES THEN "bit_low" ELSE "store"
    /\ UNCHANGED << bitValue, sensorFrame >>

\* capture the data: the second wait of bit (i, j)
BitWaitHigh ==
    Wait("bit_high", 1, BitHighTimeout, "ERROR_DATA_TIMEOUT", NextBit)

\* store the data
StoreFrame ==
    /\ pc = "store"
    /\ m_TheDataFrame' = StoreData(bitValue)
    /\ pc' = "validate"
    /\ UNCHANGED << now, m_TheLastReadTime, m_TheLastReadResult, m_TheLastTemperature,
                    m_TheLastHumidity, pinMode, locals, history, observed, probe, T, thr >>

\* WriteSnapshot storing the decoded values whatever the checksum.
WriteSnapshot_Always ==
    /\ m_TheLastTemperature' \in CalculateTemperature(m_TheDataFrame)
    /\ m_TheLastHumidity' \in CalculateHumidity(m_TheDataFrame)

\* The members ValidateChecksum writes.
WriteSnapshot ==
    IF ChecksumMatches(m_TheDataFrame)
    THEN /\ m_TheLastTemperature' \in CalculateTemperature(m_TheDataFrame)
         /\ m_TheLastHumidity' \in CalculateHumidity(m_TheDataFrame)
    ELSE UNCHANGED << m_TheLastTemperature, m_TheLastHumidity >>

\* result = ValidateChecksum(); m_TheLastReadResult = result; return result;
ValidateAndReturn ==
    /\ pc = "validate"
    /\ WriteSnapshot
    /\ m_TheLastReadResult' = ValidateChecksum(m_TheDataFrame)
    /\ Return(ValidateChecksum(m_TheDataFrame), "end")
    /\ UNCHANGED << now, m_TheDataFrame, m_TheLastReadTime, pinMode, currentTime,
                    pulse, lastCallAt, lastTxAt, entrySnapshot, bus, probe, T, thr >>

Next ==
    \/ Tick
    \/ ReadDataEnter
    \/ RequestPullUp
    \/ RequestLow
    \/ RequestHigh
    \/ RequestRelease
    \/ WaitPresence
    \/ WaitSyncLow
    \/ WaitSyncHigh
    \/ BitWaitLow
    \/ BitSample
    \/ BitWaitHigh
    \/ StoreFrame
    \/ ValidateAndReturn

Spec == Init /\ [][Next]_vars

\* ------------------------------------------------- ExpectPulse on its own

\* ExpectPulse called once with any level, any max_time up to MaxPulseTime
\* and any line behaviour over the reads it can make and one read more.
\* ------------------------------------------------------------ the getters

\* enum class TemperatureScale_t
TemperatureScale_t == {"CELCIUS", "FARENHEIT", "KELVIN"}

\* A float of the getters, in hundredths.
Hundredths(x) == 100 * x

\* return ((celsius * 9/5) + 32);
ConvertCelciusToFarenheit(celcius) == (Hundredths(celcius) * 9) \div 5 + Hundredths(32)

\* return (celsius + 273.15);
ConvertCelciusToKelvin(celcius) == Hundredths(celcius) + 27315

\* return m_TheLastHumidity;
GetHumidity == Hundredths(m_TheLastHumidity)

GetTemperature(Scale) ==
    IF Scale = "FARENHEIT" THEN ConvertCelciusToFarenheit(m_TheLastTemperature)
    ELSE IF Scale = "KELVIN" THEN ConvertCelciusToKelvin(m_TheLastTemperature)
    ELSE Hundredths(m_TheLastTemperature)

InitPulse ==
    /\ Constructed(ZeroFrame, "SUCCESS", 0, 0)
    /\ T = "DHT11_t"
    /\ probe \in [ kind : {"pulse"},
                   level : PinLevels,
                   max_time : 0..MaxPulseTime,
                   pinTrace : [1..(TraceLength(MaxPulseTime) + 1) -> PinLevels],
                   called : {FALSE},
                   out : {[result |-> "SUCCESS", observations |-> 0, waits |-> 0]} ]

CallExpectPulse ==
    /\ probe.kind = "pulse"
    /\ ~probe.called
    /\ probe' = [probe EXCEPT
                   !.called = TRUE,
                   !.out = ExpectPulse(probe.pinTrace, probe.level, probe.max_time)]
    /\ UNCHANGED << now, members, pinMode, pc, locals, history, observed, T, thr >>

NextPulse == CallExpectPulse

SpecPulse == InitPulse /\ [][NextPulse]_vars

\* -------------------------------------------- ValidateChecksum on its own

\* Byte values tried for the four payload bytes.
ProbeBytes == {0, 1, 128, 255}

\* A uint8_t.
Bytes == 0..255

\* ValidateChecksum called once on a frame with any checksum byte.
InitChecksum ==
    /\ Constructed(ZeroFrame, "SUCCESS", 0, 0)
    /\ T = "DHT11_t"
    /\ probe \in [ kind : {"checksum"},
                   frame : { <<a, b, c, d, e>> : a \in ProbeBytes, b \in ProbeBytes,
                                              c \in ProbeBytes, d \in ProbeBytes,
                                              e \in Bytes },
                   called : {FALSE},
                   out : {"SUCCESS"} ]

CallValidateChecksum ==
    /\ probe.kind = "checksum"
    /\ ~probe.called
    /\ probe' = [probe EXCEPT !.called = TRUE, !.out = ValidateChecksum(probe.frame)]
    /\ UNCHANGED << now, members, pinMode, pc, locals, history, observed, T, thr >>

NextChecksum == CallValidateChecksum

SpecChecksum == InitChecksum /\ [][NextChecksum]_vars

\* The store loop on its own, over captured bit sequences in which one byte
\* takes every value and each of the others is all zeros or all ones.
ByteWindows == [1..DHT11_MICROCONTROLLER_RESOLUTION_BITS -> PinLevels]

ByteFills == [0..(SINGLE_BUS_DATA_FRAME_SIZE_BYTES - 1) -> PinLevels]

CapturedBits(p, w, f) ==
    [k \in 1..MAXIMUM_DATA_FRAME_SIZE_BITS |->
        LET byte == (k - 1) \div DHT11_MICROCONTROLLER_RESOLUTION_BITS
            bit == (k - 1) % DHT11_MICROCONTROLLER_RESOLUTION_BITS
        IN  IF byte = p THEN w[bit + 1] ELSE f[byte]]

InitPack ==
    /\ Constructed(ZeroFrame, "SUCCESS", 0, 0)
    /\ T = "DHT11_t"
    /\ probe \in [ kind : {"pack"},
                   bits : { CapturedBits(p, w, f) :
                              p \in 0..(SINGLE_BUS_DATA_FRAME_SIZE_BYTES - 1),
                              w \in ByteWindows, f \in ByteFills },
                   called : {FALSE},
                   out : {ZeroFrame} ]

CallStoreData ==
    /\ probe.kind = "pack"
    /\ ~probe.called
    /\ probe' = [probe EXCEPT !.called = TRUE, !.out = StoreData(probe.bits)]
    /\ UNCHANGED << now, members, pinMode, pc, locals, history, observed, T, thr >>

NextPack == CallStoreData

SpecPack == InitPack /\ [][NextPack]_vars

\* ----------------------------------------------------- concurrent callers

\* Two threads call ReadData on the same instance; each statement that
\* reads or writes a member or the pin is a step of its thread.
InitThreads ==
    /\ Constructed(ZeroFrame, "SUCCESS", 0, 0)
    /\ T = "DHT11_t"
    /\ probe = NoProbe

\* The thread t moves to the place `next`.
Goto(t, next) == thr' = [thr EXCEPT ![t].pc = next]

\* The thread t returns from ReadData.
ThreadReturn(t) == thr' = [thr EXCEPT ![t].pc = "idle", ![t].currentTime = 0]

\* ThreadReadClock entering only when no other thread is inside ReadData.
ThreadReadClock_Locked(t) ==
    /\ thr[t].pc = "idle"
    /\ \A u \in Threads \ {t} : thr[u].pc = "idle"
    /\ thr' = [thr EXCEPT ![t].pc = "check", ![t].currentTime = Time(now),
                          ![t].called = TRUE]
    /\ UNCHANGED << now, members, pinMode, pc, locals, history, observed, probe, T >>

\* auto currentTime = time(NULL);
ThreadReadClock(t) ==
    /\ thr[t].pc = "idle"
    /\ thr' = [thr EXCEPT ![t].pc = "check", ![t].currentTime = Time(now),
                          ![t].called = TRUE]
    /\ UNCHANGED << now, members, pinMode, pc, locals, history, observed, probe, T >>

\* if (difftime(currentTime, m_TheLastReadTime) < 2) return m_TheLastReadResult;
ThreadCheck(t) ==
    /\ thr[t].pc = "check"
    /\ IF TooSoon(thr[t].currentTime, m_TheLastReadTime)
       THEN ThreadReturn(t)
       ELSE Goto(t, "arm")
    /\ UNCHANGED << now, members, pinMode, pc, locals, history, observed, probe, T >>

\* m_TheLastReadTime = currentTime; m_TheDataFrame.fill(0);
ThreadArm(t) ==
    /\ thr[t].pc = "arm"
    /\ m_TheLastReadTime' = thr[t].currentTime
    /\ m_TheDataFrame' = ZeroFrame
    /\ Goto(t, "request_pullup")
    /\ UNCHANGED << now, m_TheLastReadResult, m_TheLastTemperature, m_TheLastHumidity,
                    pinMode, pc, locals, history, observed, probe, T >>

\* A statement of the start signal: the pin is put in the mode `mode`.
ThreadPin(t, at, mode, next) ==
    /\ thr[t].pc = at
    /\ pinMode' = mode
    /\ Goto(t, next)
    /\ UNCHANGED << now, members, pc, locals, history, observed, probe, T >>

\* DigitalInOut pin(m_TheDataPinName); pin.mode(PullUp); sleep_for(1);
ThreadPullUp(t) == ThreadPin(t, "request_pullup", "pullup", "request_low")

\* output(); pin = PIN_LOW; sleep_for(20 or 2)
ThreadLow(t) == ThreadPin(t, "request_low", "output_low", "request_high")

\* mode(PullUp); pin = PIN_HIGH; wait_us(30);
ThreadHigh(t) == ThreadPin(t, "request_high", "output_high", "request_release")

\* input()
ThreadRelease(t) == ThreadPin(t, "request_release", "input", "listen")

\* The handshake and the bit capture: the thread polls and samples the pin
\* until a wait times out or 40 bits are captured.
ThreadListen(t) ==
    /\ thr[t].pc = "listen"
    /\ \/ \E status \in TimeoutStatuses :
            /\ m_TheLastReadResult' = status
            /\ ThreadReturn(t)
       \/ /\ Goto(t, "store")
          /\ UNCHANGED m_TheLastReadResult
    /\ UNCHANGED << now, m_TheDataFrame, m_TheLastReadTime, m_TheLastTemperature,
                    m_TheLastHumidity, pinMode, pc, locals, history, observed, probe, T >>

\* store the data; result = ValidateChecksum(); m_TheLastReadResult = result;
ThreadStore(t) ==
    /\ thr[t].pc = "store"
    /\ \E frame \in SensorFrames :
         /\ m_TheDataFrame' = frame
         /\ m_TheLastReadResult' = ValidateChecksum(frame)
         /\ IF ChecksumMatches(frame)
            THEN /\ m_TheLastTemperature' \in CalculateTemperature(frame)
                 /\ m_TheLastHumidity' \in CalculateHumidity(frame)
            ELSE UNCHANGED << m_TheLastTemperature, m_TheLastHumidity >>
    /\ ThreadReturn(t)
    /\ UNCHANGED << now, m_TheLastReadTime, pinMode, pc, locals, history, observed,
                    probe, T >>

ThreadStep(t) ==
    \/ ThreadReadClock(t)
    \/ ThreadCheck(t)
    \/ ThreadArm(t)
    \/ ThreadPullUp(t)
    \/ ThreadLow(t)
    \/ ThreadHigh(t)
    \/ ThreadRelease(t)
    \/ ThreadListen(t)
    \/ ThreadStore(t)

NextThreads ==
    \/ Tick
    \/ \E t \in Threads : ThreadStep(t)

SpecThreads == InitThreads /\ [][NextThreads]_vars

\* ================================================================ claims

\* The first n reads of the probed line all give the probed level.
StaysAtLevel(n) == \A k \in 1..n : probe.pinTrace[k] = probe.level

PulseCalled == probe.kind = "pulse" /\ probe.called

PulseTimedOut == PulseCalled /\ probe.out.result = "ERROR_TOO_FAST_READS"

\* ---- C4
\* C4: for every 5-byte frame, ValidateChecksum returns SUCCESS if and only
\* if byte 4 equals the sum of bytes 0..3 modulo 256, and ERROR_BAD_CHECKSUM
\* for every other value of byte 4.
C4_ChecksumIffTruncatedSum ==
    (probe.kind = "checksum" /\ probe.called) =>
        LET f == probe.frame
            sum == f[1] + f[2] + f[3] + f[4]
        IN  /\ (probe.out = "SUCCESS") <=> (f[5] = sum % 256)
            /\ (f[5] # sum % 256) => (probe.out = "ERROR_BAD_CHECKSUM")

\* C4 witness: a frame whose byte sum overflows 8 bits was accepted.
C4_Witness ==
    /\ probe.kind = "checksum"
    /\ probe.called
    /\ probe.frame = <<255, 255, 255, 255, 252>>
    /\ probe.out = "SUCCESS"

\* ---- C9
\* C9 as stated: an ExpectPulse call that times out has made no more than
\* max_time + 1 pin observations.
C9_Original ==
    PulseTimedOut => probe.out.observations <= probe.max_time + 1

\* C9 amended: ExpectPulse never makes more than max_time + 2 pin
\* observations nor more than max_time + 1 one-microsecond waits; when the
\* pin reads `level` at every one of max_time + 2 observations it returns the
\* timeout failure, after exactly max_time + 2 observations and max_time + 1
\* waits.
C9_BoundedPolling ==
    PulseCalled =>
        /\ probe.out.observations <= probe.max_time + 2
        /\ probe.out.waits <= probe.max_time + 1
        /\ StaysAtLevel(probe.max_time + 2) => PulseTimedOut
        /\ PulseTimedOut =>
              /\ probe.out.observations = probe.max_time + 2
              /\ probe.out.waits = probe.max_time + 1

\* C9 witness: a call with the largest max_time explored timed out.
C9_Witness ==
    /\ PulseTimedOut
    /\ probe.max_time = MaxPulseTime
    /\ StaysAtLevel(probe.max_time + 2)

\* ---- C10
\* C10 as stated: ExpectPulse returns SUCCESS only when it observes the pin
\* at the level passed as `level`.
C10_Original ==
    (PulseCalled /\ probe.out.result = "SUCCESS") =>
        probe.pinTrace[probe.out.observations] = probe.level

\* C10 amended: ExpectPulse spins while the pin reads `level`.  It returns
\* SUCCESS at the first observation of the other level, if that is one of
\* the first max_time + 2 observations, and returns the timeout failure
\* exactly when the pin reads `level` at all of them.
C10_ReturnsWhenLevelLeft ==
    PulseCalled =>
        /\ probe.out.result \in {"SUCCESS", "ERROR_TOO_FAST_READS"}
        /\ (probe.out.result = "SUCCESS") <=> ~StaysAtLevel(probe.max_time + 2)
        /\ (probe.out.result = "SUCCESS") =>
              /\ probe.pinTrace[probe.out.observations] # probe.level
              /\ StaysAtLevel(probe.out.observations - 1)
        /\ PulseTimedOut <=> StaysAtLevel(probe.max_time + 2)

\* C10 witness: a call returned SUCCESS after the pin had read `level` twice.
C10_Witness ==
    /\ PulseCalled
    /\ probe.out.result = "SUCCESS"
    /\ probe.out.observations = 3
    /\ StaysAtLevel(2)

\* --------------------------------------------------- claims about ReadData

\* The step is the entry of a ReadData call.
CallStep == pc = "idle" /\ now' = now

\* The clock reading a call made now takes is less than the minimum
\* sampling period after the reading m_TheLastReadTime holds.
WithinPeriodOfLastRead ==
    Time(now) - m_TheLastReadTime < MINIMUM_SAMPLING_PERIOD_SECONDS

snapshot == << m_TheLastTemperature, m_TheLastHumidity >>

\* The most recent call has returned, and it ran a transaction.
TransactionReturned == pc = "idle" /\ retAt \notin {"none", "cache"}

\* ---- C1
\* C1 as stated, with the time between calls measured by the clock the
\* driver reads: a call made less than the minimum sampling period after the
\* call before it, whatever that call did, returns the same status, leaves
\* temperature and humidity as they are and does not enter the transaction.
C1_Original ==
    [][ (CallStep /\ retAt # "none"
           /\ Time(now) - Time(lastCallAt) < MINIMUM_SAMPLING_PERIOD_SECONDS)
        => /\ pc' = "idle"
           /\ ret' = ret
           /\ snapshot' = snapshot
           /\ pinMode' = pinMode ]_vars

\* C1 amended: a call whose clock reading is less than the minimum sampling
\* period after the reading of the last call that started a transaction
\* (the call before it or an earlier one) returns the same status as the call
\* before it, leaves temperature and humidity as they are and does not enter
\* the transaction.
C1_SameResultWithinPeriod ==
    [][ (CallStep /\ retAt # "none" /\ WithinPeriodOfLastRead)
        => /\ pc' = "idle"
           /\ retAt' = "cache"
           /\ ret' = ret
           /\ snapshot' = snapshot
           /\ pinMode' = pinMode ]_vars

\* C1 witness: a call was served from the cache after a transaction that
\* failed, one clock second after it.
C1_Witness ==
    /\ pc = "idle"
    /\ retAt = "cache"
    /\ ret = "ERROR_DATA_TIMEOUT"
    /\ lastTxAt >= 0
    /\ Time(lastCallAt) = m_TheLastReadTime + 1

\* ---- C2
\* C2: any two transactions of one instance begin at least
\* MINIMUM_SAMPLING_PERIOD_SECONDS of real time apart.
C2_TransactionsTwoSecondsApart ==
    [][ (CallStep /\ pc' = "request_pullup" /\ lastTxAt >= 0)
        => now - lastTxAt >= MINIMUM_SAMPLING_PERIOD_SECONDS * TicksPerSecond ]_vars

\* ---- C3
\* C3: when a ReadData call that ran a transaction has returned a status
\* other than SUCCESS, temperature and humidity are what they were when the
\* call was made, and the status and the time of the read are updated.
C3_FailureKeepsSnapshot ==
    (TransactionReturned /\ ret # "SUCCESS") =>
        /\ ret \in TimeoutStatuses \cup {"ERROR_BAD_CHECKSUM"}
        /\ snapshot = entrySnapshot
        /\ m_TheLastReadResult = ret
        /\ m_TheLastReadTime = currentTime

\* C3 witness: a call returned ERROR_BAD_CHECKSUM with a complete frame.
C3_Witness ==
    /\ TransactionReturned
    /\ ret = "ERROR_BAD_CHECKSUM"
    /\ m_TheDataFrame = <<50, 0, 24, 0, 75>>
    /\ snapshot = entrySnapshot

\* ---- C5
\* The place after `at` when its wait succeeds.
AfterWait(at) ==
    CASE at = "presence" -> {"sync_low"}
      [] at = "sync_low" -> {"sync_high"}
      [] at = "sync_high" -> {"bit_low"}
      [] at = "bit_low" -> {"bit_sample"}
      [] at = "bit_high" -> {"bit_low", "store"}

\* The status the claim gives a timeout of the wait at `at`.
TimeoutStatusOf(at) ==
    CASE at = "presence" -> "ERROR_NOT_DETECTED"
      [] at = "sync_low" -> "ERROR_SYNC_TIMEOUT"
      [] at = "sync_high" -> "ERROR_TOO_FAST_READS"
      [] at = "bit_low" -> "ERROR_DATA_TIMEOUT"
      [] at = "bit_high" -> "ERROR_DATA_TIMEOUT"

WaitPlaces == {"presence", "sync_low", "sync_high", "bit_low", "bit_high"}

\* C5: the phases run in order; a wait that succeeds leads to the next
\* phase, and a wait that times out ends the call at once with the status
\* of its phase: ERROR_NOT_DETECTED in the presence wait, ERROR_SYNC_TIMEOUT
\* in the sync-low wait, ERROR_TOO_FAST_READS in the sync-high wait,
\* ERROR_DATA_TIMEOUT in either wait of a bit iteration.
C5_FirstTimeoutAborts ==
    [][ /\ \A at \in WaitPlaces :
             (pc = at) =>
                IF pulse' = "SUCCESS"
                THEN pc' \in AfterWait(at)
                ELSE /\ pc' = "idle"
                     /\ ret' = TimeoutStatusOf(at)
                     /\ retAt' = at
                     /\ m_TheLastReadResult' = TimeoutStatusOf(at)
        /\ (pc = "request_pullup") => (pc' = "request_low")
        /\ (pc = "request_low") => (pc' = "request_high")
        /\ (pc = "request_high") => (pc' = "request_release")
        /\ (pc = "request_release") => (pc' = "presence")
        /\ (pc = "bit_sample") => (pc' = "bit_high")
        /\ (pc = "store") => (pc' = "validate")
        /\ (pc = "validate") => (pc' = "idle" /\ ret' \notin TimeoutStatuses) ]_vars

\* C5 witness: the line stayed high after the request phase and the call
\* returned ERROR_NOT_DETECTED from the presence wait.
C5_Witness ==
    /\ pc = "idle"
    /\ retAt = "presence"
    /\ pulse = "ERROR_TOO_FAST_READS"
    /\ ret = "ERROR_NOT_DETECTED"
    /\ m_TheLastReadResult = "ERROR_NOT_DETECTED"

\* ---- C6
\* C6: construction touches no pin, and no call is served from the cache
\* before a transaction has begun: the first call begins one.
C6_FirstCallNotBlocked ==
    /\ (retAt = "cache") => (lastTxAt >= 0)
    /\ (retAt = "none" /\ pc = "idle") => (pinMode = "unconfigured" /\ lastTxAt = -1)

\* C6 witness: the first call, made at the instant of construction, has
\* begun a transaction.
C6_Witness ==
    /\ retAt = "none"
    /\ now = 0
    /\ lastCallAt = 0
    /\ lastTxAt = 0
    /\ pc = "request_pullup"

\* ---- C7
\* C7: a rate-limited call changes no member and does not touch the pin; in
\* particular m_TheLastReadTime keeps the reading of the last call that
\* began a transaction.
C7_RateLimitedChangesNothing ==
    [][ (CallStep /\ WithinPeriodOfLastRead)
        => /\ pc' = "idle"
           /\ m_TheDataFrame' = m_TheDataFrame
           /\ m_TheLastReadTime' = m_TheLastReadTime
           /\ m_TheLastReadResult' = m_TheLastReadResult
           /\ snapshot' = snapshot
           /\ pinMode' = pinMode
           /\ lastTxAt' = lastTxAt ]_vars

\* C7 witness: a call was served from the cache at a clock reading later
\* than the one m_TheLastReadTime still holds.
C7_Witness ==
    /\ pc = "idle"
    /\ retAt = "cache"
    /\ currentTime > m_TheLastReadTime
    /\ m_TheLastReadTime = Time(lastTxAt)

\* ---- C8
\* C8: during and after every call that runs a transaction m_TheLastReadTime
\* is the clock reading that call took; when it has returned,
\* m_TheLastReadResult is the status it returned, whatever that is, and
\* temperature and humidity differ from what they were only if it is SUCCESS.
C8_CacheUpdatedOnEveryPath ==
    /\ (pc # "idle") => (m_TheLastReadTime = currentTime /\ currentTime = Time(lastTxAt))
    /\ TransactionReturned =>
          /\ m_TheLastReadTime = currentTime
          /\ currentTime = Time(lastCallAt)
          /\ m_TheLastReadResult = ret
          /\ (snapshot # entrySnapshot) => (ret = "SUCCESS")

\* C8 witness: a transaction that timed out in its last phase has armed the
\* limiter with a clock reading later than the baseline.
C8_Witness ==
    /\ TransactionReturned
    /\ retAt = "bit_high"
    /\ ret = "ERROR_DATA_TIMEOUT"
    /\ m_TheLastReadResult = "ERROR_DATA_TIMEOUT"
    /\ currentTime = 2
    /\ m_TheLastReadTime = 2

\* ------------------------------------------------------------------ C11

\* The places of the start signal.
StartPlaces == {"request_pullup", "request_low", "request_high", "request_release"}

\* The mode changes of the fixed sequence.
ModeSequence ==
    { << "unconfigured", "pullup" >>, << "input", "pullup" >>,
      << "pullup", "output_low" >>, << "output_low", "output_high" >>,
      << "output_high", "input" >> }

\* C11: a transaction changes the mode of the pin only along the sequence
\* pull-up, driven low (held 20 ms by a DHT11 and 2 ms by a DHT22), driven
\* high, input, one change per step of the start signal; the pin is an input
\* at every wait and sample after it, and whenever a transaction has returned,
\* whatever the status it returned.
C11_FixedModeSequenceEndsInput ==
    [][ /\ (pinMode' # pinMode) => (<< pinMode, pinMode' >> \in ModeSequence)
        /\ (pc = "request_pullup") => (pinMode' = "pullup")
        /\ (pc = "request_low") =>
              /\ pinMode' = "output_low"
              /\ (T = "DHT11_t") => (bus'.hold = 20)
              /\ (T = "DHT22_t") => (bus'.hold = 2)
        /\ (pc = "request_high") => (pinMode' = "output_high")
        /\ (pc = "request_release") => (pinMode' = "input")
        /\ (pc \notin StartPlaces \cup {"idle"}) => (pinMode = "input")
        /\ TransactionReturned' => (pinMode' = "input")
      ]_vars

\* A DHT22 transaction has timed out in the middle of the bit capture and the
\* pin is an input.
C11_Witness ==
    /\ TransactionReturned
    /\ T = "DHT22_t"
    /\ bus.hold = 2
    /\ retAt = "bit_high"
    /\ ret = "ERROR_DATA_TIMEOUT"
    /\ pinMode = "input"

\* ------------------------------------------------------------------ C12

\* The frame of the scenario: humidity 50, temperature 24, checksum 0x4A.
ScenarioFrame == << 50, 0, 24, 0, 74 >>

\* C12: when the sensor has delivered the frame 0x32, 0x00, 0x18, 0x00, 0x4A,
\* ReadData returns SUCCESS and afterwards GetHumidity() is 50 and
\* GetTemperature(CELCIUS) is 24.
C12_ScenarioReadsBack ==
    (TransactionReturned /\ retAt = "end" /\ m_TheDataFrame = ScenarioFrame) =>
        /\ ret = "SUCCESS"
        /\ GetHumidity = Hundredths(50)
        /\ GetTemperature("CELCIUS") = Hundredths(24)

\* ------------------------------------------------------------------ C13

\* The index of the bit being captured.
BitIndex == i * DHT11_MICROCONTROLLER_RESOLUTION_BITS + j

\* The step is an edge wait made at `at` that returned SUCCESS.
WaitSucceeded(at) == pc = at /\ pc' # "idle"

\* What the two readings of the bit loop have in common: the order of the
\* steps, the timeouts, the settle delay, the sampled level as the bit value,
\* and 40 iterations.
BitLoopOrder ==
    /\ (pc = "bit_low") =>
          /\ bus'.pulseMax = 75
          /\ pc' \in {"bit_sample", "idle"}
          /\ tally.samples = BitIndex
    /\ (pc = "bit_sample") =>
          /\ bus'.delay = 40
          /\ bitValue' = [bitValue EXCEPT ![BitIndex + 1] = bus'.level]
          /\ (bitValue'[BitIndex + 1] = 1) <=> (bus'.level = PIN_HIGH)
          /\ pc' = "bit_high"
    /\ (pc = "bit_high") =>
          /\ bus'.pulseMax = 50
          /\ pc' \in {"bit_low", "store", "idle"}
          /\ (pc' = "bit_low") => (tally'.samples < MAXIMUM_DATA_FRAME_SIZE_BITS)
          /\ (pc' = "store") => (tally'.samples = MAXIMUM_DATA_FRAME_SIZE_BITS)

\* The claim as stated: the first wait of a bit ends when the line has gone
\* low, the second when it has returned high.
C13_Original ==
    [][ /\ BitLoopOrder
        /\ WaitSucceeded("bit_low") => (bus'.level = PIN_LOW)
        /\ WaitSucceeded("bit_high") => (bus'.level = PIN_HIGH)
      ]_vars

\* C13: each of the 40 iterations of the bit capture does, in this order:
\* wait while the line is low, until it reads high (timeout 75); delay 40
\* microseconds; sample the pin as the bit value; wait while the line is
\* high, until it reads low (timeout 50). The sampled bit is 1 exactly when
\* the line is high at the sample.
C13_BitCaptureOrder ==
    [][ /\ BitLoopOrder
        /\ (pc = "bit_low") => (bus'.pulseLevel = PIN_LOW)
        /\ WaitSucceeded("bit_low") => (bus'.level = PIN_HIGH)
        /\ (pc = "bit_high") => (bus'.pulseLevel = PIN_HIGH)
        /\ WaitSucceeded("bit_high") => (bus'.level = PIN_LOW)
      ]_vars

\* All 40 bits of a frame with zeros and ones have been captured, and the
\* last wait of the loop has seen the line go low.
C13_Witness ==
    /\ pc = "store"
    /\ tally.samples = MAXIMUM_DATA_FRAME_SIZE_BITS
    /\ bitValue[1] = 0
    /\ bitValue[3] = 1
    /\ bus.pulseLevel = PIN_HIGH
    /\ bus.level = PIN_LOW

\* ------------------------------------------------------------------ C14

\* C14: a transaction starts by zero-filling the data frame; the frame stays
\* all zero through the start signal, the handshake and the whole bit
\* capture, whatever bits the call-local buffer holds; and when ReadData has
\* returned a timeout status it returned from one of the edge waits, before
\* the frame was packed and ValidateChecksum called: the frame is all zero
\* and the temperature and humidity are those the call found.
C14_NoPartialFrame ==
    [][ /\ (CallStep /\ pc' # "idle") => (m_TheDataFrame' = ZeroFrame)
        /\ (pc' \notin {"idle", "validate"}) => (m_TheDataFrame' = ZeroFrame)
        /\ (TransactionReturned' /\ ret' \in TimeoutStatuses) =>
              /\ m_TheDataFrame' = ZeroFrame
              /\ retAt' \in WaitPlaces
              /\ pc # "validate"
              /\ snapshot' = entrySnapshot'
      ]_vars

\* A call has timed out in the wait that follows a sample, so with at least
\* one bit captured, and the data frame is all zero.
C14_Witness ==
    /\ TransactionReturned
    /\ ret = "ERROR_DATA_TIMEOUT"
    /\ retAt = "bit_high"
    /\ bus.delay = SampleDelay
    /\ m_TheDataFrame = ZeroFrame

\* ------------------------------------------------------------------ C15

\* The call in progress has captured a complete frame: its three handshake
\* waits succeeded and it took 40 samples, each between two successful edge
\* waits, and packed them into the data frame.
CompleteCapture ==
    /\ tally.starts = 1
    /\ tally.handshakes = 3
    /\ tally.samples = MAXIMUM_DATA_FRAME_SIZE_BITS
    /\ tally.bitWaits = 2 * MAXIMUM_DATA_FRAME_SIZE_BITS
    /\ m_TheDataFrame = StoreData(bitValue)

\* SUCCESS and ERROR_BAD_CHECKSUM are returned, and the temperature and
\* humidity are changed, only by a call that has captured a complete frame;
\* within the bit capture every sample is preceded and followed by a
\* successful edge wait.
OnlyAfterCompleteCapture ==
    /\ (pc # "idle" /\ TransactionReturned' /\ ret' \in {"SUCCESS", "ERROR_BAD_CHECKSUM"}) =>
          /\ pc = "validate"
          /\ CompleteCapture
          /\ (ret' = "SUCCESS") <=> ChecksumMatches(m_TheDataFrame)
    /\ (snapshot' # snapshot) =>
          /\ pc = "validate"
          /\ CompleteCapture
          /\ ChecksumMatches(m_TheDataFrame)
          /\ ret' = "SUCCESS"
    /\ (pc = "bit_sample") => (tally.bitWaits = 2 * tally.samples + 1)
    /\ (pc = "bit_high" /\ pc' # "idle") => (tally'.bitWaits = 2 * tally'.samples)

\* C15: a ReadData that is not rate limited returns SUCCESS or
\* ERROR_BAD_CHECKSUM only after it has captured a complete frame in that
\* call: one start request, three successful handshake waits, 40 samples
\* each between two successful edge waits; SUCCESS exactly when the checksum
\* of that frame matches. The temperature and humidity change only in the
\* step that validates a complete frame whose checksum matches.
C15_OnlyAfterCompleteCapture == [][OnlyAfterCompleteCapture]_vars

\* A call has captured a complete frame whose checksum does not match and
\* returned ERROR_BAD_CHECKSUM, leaving the temperature and humidity alone.
C15_Witness ==
    /\ TransactionReturned
    /\ retAt = "end"
    /\ ret = "ERROR_BAD_CHECKSUM"
    /\ m_TheDataFrame = << 50, 0, 24, 0, 75 >>
    /\ snapshot = entrySnapshot

\* ------------------------------------------------------------------ C16

\* The sum over j in 0..7 of bit[8*i + j] * 2^(7-j).
MsbFirstSum(bits, byte) ==
    LET bit(n) == bits[8 * byte + n + 1]
    IN  bit(0) * 128 + bit(1) * 64 + bit(2) * 32 + bit(3) * 16
          + bit(4) * 8 + bit(5) * 4 + bit(6) * 2 + bit(7)

\* Bit k of a frame, read back from its bytes.
BitOfFrame(frame, k) == (frame[(k \div 8) + 1] \div (2 ^ (7 - (k % 8)))) % 2

\* C16: the store loop packs the captured bits most significant bit first,
\* in capture order: byte i of the frame is the sum over j in 0..7 of
\* bit[8*i + j] * 2^(7-j). The result is a frame of five bytes, and every
\* captured bit can be read back from it, so distinct bit sequences give
\* distinct frames.
C16_PackedMsbFirst ==
    (probe.kind = "pack" /\ probe.called) =>
        /\ DOMAIN probe.out = 1..SINGLE_BUS_DATA_FRAME_SIZE_BYTES
        /\ \A b \in 0..(SINGLE_BUS_DATA_FRAME_SIZE_BYTES - 1) :
              /\ probe.out[b + 1] = MsbFirstSum(probe.bits, b)
              /\ probe.out[b + 1] \in 0..255
        /\ \A k \in 0..(MAXIMUM_DATA_FRAME_SIZE_BITS - 1) :
              BitOfFrame(probe.out, k) = probe.bits[k + 1]

\* The bits of the bytes 0x32, 0xFF, 0x00, 0x00, 0xFF have been packed.
C16_Witness ==
    /\ probe.kind = "pack"
    /\ probe.called
    /\ \A k \in 0..(MAXIMUM_DATA_FRAME_SIZE_BITS - 1) :
          probe.bits[k + 1] = FrameBit(<< 50, 255, 0, 0, 255 >>, k)
    /\ probe.out = << 50, 255, 0, 0, 255 >>

\* ------------------------------------------------------------------ C17

\* The statuses ReadData assigns to result.
ProducedStatuses == SensorStatus_t \ {"ERROR_BUS_BUSY", "ERROR_BAD_START"}

\* C17: every status a ReadData call has returned, rate-limited calls
\* included, is one of SUCCESS, ERROR_NOT_DETECTED, ERROR_SYNC_TIMEOUT,
\* ERROR_TOO_FAST_READS, ERROR_DATA_TIMEOUT and ERROR_BAD_CHECKSUM, never
\* ERROR_BUS_BUSY or ERROR_BAD_START; a call that returned the cached
\* m_TheLastReadResult did so after a transaction had assigned it.
C17_OnlySixStatusesReturned ==
    /\ (retAt # "none") => (ret \in ProducedStatuses)
    /\ (retAt = "cache") =>
          /\ lastTxAt >= 0
          /\ ret = m_TheLastReadResult
    /\ (pc = "idle" /\ lastTxAt >= 0) => (m_TheLastReadResult \in ProducedStatuses)

\* A rate-limited call has returned the timeout status the transaction
\* before it cached.
C17_Witness ==
    /\ pc = "idle"
    /\ retAt = "cache"
    /\ lastTxAt >= 0
    /\ ret \in TimeoutStatuses
    /\ ret = m_TheLastReadResult

\* ------------------------------------------------------------------ C18

\* The places of a transaction: the thread has passed the rate-limit check.
TransactionPlaces ==
    {"arm", "request_pullup", "request_low", "request_high", "request_release",
     "listen", "store"}

InFlight == {t \in Threads : thr[t].pc \in TransactionPlaces}

Callers == {t \in Threads : thr[t].called}

\* C18: nothing in ReadData makes a thread wait for another: a thread can
\* always enter, make the rate-limit check on the m_TheLastReadTime it reads
\* at that moment and, once it has passed the check, re-arm the limiter and
\* start its transaction, wherever the other thread is. With a single
\* caller at most one transaction is in flight.
C18_NoMutualExclusion ==
    /\ \A t \in Threads :
          /\ (thr[t].pc = "idle") => ENABLED ThreadReadClock(t)
          /\ (thr[t].pc = "check") => ENABLED ThreadCheck(t)
          /\ (thr[t].pc = "arm") => ENABLED ThreadArm(t)
    /\ (Cardinality(Callers) <= 1) => (Cardinality(InFlight) <= 1)

\* Both threads have passed the check and two transactions are in flight:
\* thread 2 has just driven the pin low while thread 1 is polling it.
C18_Witness ==
    /\ InFlight = Threads
    /\ thr[1].pc = "listen"
    /\ thr[2].pc = "request_high"
    /\ pinMode = "output_low"

\* ------------------------------------------------------------------ C19

\* What the call in progress has done is within the bounds: one start
\* request, three handshake waits, 80 bit waits; at a place where it is about
\* to do one more, it has done fewer.
WithinBounds ==
    /\ tally.starts <= 1
    /\ tally.handshakes <= 3
    /\ tally.bitWaits <= 2 * MAXIMUM_DATA_FRAME_SIZE_BITS
    /\ (pc \in {"request_pullup", "request_low"}) => (tally.starts = 0)
    /\ (pc \in HandshakePlaces) => (tally.handshakes < 3)
    /\ (pc \in BitWaitPlaces) => (tally.bitWaits < 2 * MAXIMUM_DATA_FRAME_SIZE_BITS)

\* Every edge wait ReadData makes reads the pin at most max_time + 2 times.
PollsBounded ==
    \A max_time \in Timeouts : \A level \in PinLevels : \A d \in PulseDelays(max_time) :
        PulseOutcomes[max_time][level][d].observations <= max_time + 2

\* A step of the call in progress.
Running == pc # "idle" /\ Next

\* The call in progress can take a step: at the store loop, whose only
\* condition is that the 40 bits pack into a frame, and at every other place.
CanRun ==
    IF pc = "store"
    THEN StoreData(bitValue) \in [1..SINGLE_BUS_DATA_FRAME_SIZE_BYTES -> 0..255]
    ELSE ENABLED Running

\* The number of steps the call in progress can still take at most.
Remaining ==
    LET bitsLeft == MAXIMUM_DATA_FRAME_SIZE_BITS - 1 - BitIndex
        afterBits == 3
        beforeBits == afterBits + 3 * MAXIMUM_DATA_FRAME_SIZE_BITS
    IN  CASE pc = "idle" -> 0
          [] pc = "validate" -> 1
          [] pc = "store" -> 2
          [] pc = "bit_high" -> afterBits + 3 * bitsLeft
          [] pc = "bit_sample" -> afterBits + 3 * bitsLeft + 1
          [] pc = "bit_low" -> afterBits + 3 * bitsLeft + 2
          [] pc = "sync_high" -> beforeBits
          [] pc = "sync_low" -> beforeBits + 1
          [] pc = "presence" -> beforeBits + 2
          [] pc = "request_release" -> beforeBits + 3
          [] pc = "request_high" -> beforeBits + 4
          [] pc = "request_low" -> beforeBits + 5
          [] pc = "request_pullup" -> beforeBits + 6

\* C19: every ReadData call returns, whatever the line does: a call in
\* progress can always take a step, and each step brings it nearer to its
\* return; while it runs it makes at most one start request, at most 3
\* handshake edge waits and at most 80 bit edge waits, each of a bounded
\* number of polls.
C19_EveryCallTerminates ==
    /\ [](WithinBounds /\ PollsBounded /\ ((pc # "idle") => CanRun))
    /\ [][(pc # "idle") => (Remaining' < Remaining /\ Remaining' >= 0)]_vars

\* A call is at its 80th bit wait, the other 79 and the three handshake
\* waits having succeeded after one start request.
C19_Witness ==
    /\ pc = "bit_high"
    /\ tally.starts = 1
    /\ tally.handshakes = 3
    /\ tally.bitWaits = 2 * MAXIMUM_DATA_FRAME_SIZE_BITS - 1

\* ------------------------------------------------------------------ C20

\* The most recent ReadData call returned a failure status.
LastCallFailed == retAt # "none" /\ ret # "SUCCESS"

\* At least the minimum sampling period of real time has passed since the
\* last transaction started.
PeriodElapsed ==
    /\ lastTxAt >= 0
    /\ now - lastTxAt >= MINIMUM_SAMPLING_PERIOD_SECONDS * TicksPerSecond

\* C20: after a ReadData that returned a failure status, a call made once
\* the minimum sampling period has passed since the last transaction is not
\* served from the cache: it re-arms the limiter, zero-fills the frame and
\* starts the start signal. In that transaction every edge wait the sensor
\* answers in time leads on, and when the frame captured has a matching
\* checksum the call returns SUCCESS, caches SUCCESS and writes the
\* temperature and humidity.
C20_NoStickyFailure ==
    [][ /\ (CallStep /\ LastCallFailed /\ PeriodElapsed) =>
              /\ pc' = "request_pullup"
              /\ retAt' = retAt
              /\ lastTxAt' = now
              /\ m_TheLastReadTime' = Time(now)
              /\ m_TheDataFrame' = ZeroFrame
        /\ (LastCallFailed /\ pc \in WaitPlaces /\ pulse' = "SUCCESS") =>
              (pc' \in AfterWait(pc))
        /\ (LastCallFailed /\ pc = "store") => (pc' = "validate")
        /\ (LastCallFailed /\ pc = "validate" /\ ChecksumMatches(m_TheDataFrame)) =>
              /\ pc' = "idle"
              /\ ret' = "SUCCESS"
              /\ retAt' = "end"
              /\ m_TheLastReadResult' = "SUCCESS"
              /\ m_TheLastTemperature' \in CalculateTemperature(m_TheDataFrame)
              /\ m_TheLastHumidity' \in CalculateHumidity(m_TheDataFrame)
      ]_vars

\* The call before returned a timeout; a fresh transaction, started two
\* seconds or more after the last one, has captured a frame whose checksum
\* matches and is about to validate it.
C20_Witness ==
    /\ pc = "validate"
    /\ ret \in TimeoutStatuses
    /\ retAt \in WaitPlaces
    /\ m_TheLastReadResult = ret
    /\ lastTxAt >= MINIMUM_SAMPLING_PERIOD_SECONDS * TicksPerSecond
    /\ ChecksumMatches(m_TheDataFrame)

====
